---- MODULE Spec2Model ----
(***************************************************************************)
(* Model of nodejs_waiter/src/waiter.rs: the Waiter (a map from ZomeFnCall *)
(* to CallFxChecker plus the `current` pointer), the MainBackgroundTask    *)
(* that feeds it Signals, the registration channel `sender_rx` and the     *)
(* per-call control channels on which ControlMsg::Stop is sent.            *)
(*                                                                         *)
(* All channels are std::sync::mpsc::sync_channel(0) rendezvous channels:  *)
(* a send blocks until the value is received and returns Err when the      *)
(* receiver has been dropped.  The consumer of a control channel is a      *)
(* CallBlockingTask, which does nothing but rx.recv(); a Stop sent to a    *)
(* consumer that still holds its receiver is therefore modelled as one     *)
(* step (send and recv meet).                                              *)
(***************************************************************************)
EXTENDS Naturals, Sequences, FiniteSets

---------------------------------------------------------------------------
(* Bounds of the model *)

\* number of control channels the registrars create
MaxChans == 2
\* most conditions pending in the Waiter at once, over all its checkers
MaxConds == 2

Calls   == {"A", "B"}
Records == {"r1", "r2"}
\* message ids of the outcome events, and those of the messages sent
Msgs     == {"m1", "m2"}
SentMsgs == {"m1"}
Chans   == 1 .. MaxChans

None   == "None"
NoChan == 0

---------------------------------------------------------------------------
(* Signals.  t is the Action variant carried by Signal::Internal; "signal" *)
(* is any Signal that is not Internal.  custom tells DirectMessage::Custom *)
(* from the other DirectMessage variants (only read for t = "send").       *)

Ev(t, v, custom) == [t |-> t, v |-> v, custom |-> custom]

ExecuteZomeFunction(call)      == Ev("start", call, FALSE)
ReturnZomeFunctionResult(call) == Ev("return", call, FALSE)
Commit(entry)                  == Ev("commit", entry, FALSE)
Hold(entry)                    == Ev("hold", entry, FALSE)
SendDirectMessage(m, custom)   == Ev("send", m, custom)
ResolveDirectConnection(m)     == Ev("resolve", m, FALSE)
SendDirectMessageTimeout(m)    == Ev("timeout", m, FALSE)
OtherAction                    == Ev("other", "-", FALSE)
OtherSignal                    == Ev("signal", "-", FALSE)

Events ==
    {ExecuteZomeFunction(c) : c \in Calls}
    \cup {ReturnZomeFunctionResult(c) : c \in Calls}
    \cup {Commit(r) : r \in Records}
    \cup {Hold(r) : r \in Records}
    \cup {SendDirectMessage(m, b) : m \in SentMsgs, b \in BOOLEAN}
    \cup {ResolveDirectConnection(m) : m \in Msgs}
    \cup {SendDirectMessageTimeout(m) : m \in Msgs}
    \cup {OtherAction, OtherSignal}

---------------------------------------------------------------------------
(* CallFxCondition: the three closures process_signal creates, named by    *)
(* what they capture.                                                      *)

Cond(k, v) == [k |-> k, v |-> v]

\* |aw| ReturnZomeFunctionResult(r) && r.call() == call
ReturnCondition(call) == Cond("return", call)
\* |aw| *aw.action() == Action::Hold(entry)
HoldCondition(entry)  == Cond("hold", entry)
\* |aw| [ResolveDirectConnection(msg_id), SendDirectMessageTimeout(msg_id)].contains(aw.action())
PeerCondition(m)      == Cond("peer", m)

\* the peer closure comparing the variant alone, not the msg_id it carries
SatisfiesAnyOutcome(cond, ev) ==
    CASE cond.k = "return" -> ev.t = "return" /\ ev.v = cond.v
      [] cond.k = "hold"   -> ev.t = "hold" /\ ev.v = cond.v
      [] cond.k = "peer"   -> ev.t \in {"resolve", "timeout"}
      [] OTHER             -> FALSE

\* the Hold closure comparing the variant alone, not the entry it carries
SatisfiesAnyHold(cond, ev) ==
    CASE cond.k = "return" -> ev.t = "return" /\ ev.v = cond.v
      [] cond.k = "hold"   -> ev.t = "hold"
      [] cond.k = "peer"   -> ev.t \in {"resolve", "timeout"} /\ ev.v = cond.v
      [] OTHER             -> FALSE

\* condition(aw): the closure applied to an action
Satisfies(cond, ev) ==
    CASE cond.k = "return" -> ev.t = "return" /\ ev.v = cond.v
      [] cond.k = "hold"   -> ev.t = "hold" /\ ev.v = cond.v
      [] cond.k = "peer"   -> ev.t \in {"resolve", "timeout"} /\ ev.v = cond.v
      [] OTHER             -> FALSE

---------------------------------------------------------------------------
(* CallFxChecker *)

\* CallFxChecker::new
NewChecker(tx) == [tx |-> tx, conditions |-> <<>>]

\* a retain that stops at the first condition it removes
RetainFirst(conds, ev) ==
    LET hit == {i \in DOMAIN conds : Satisfies(conds[i], ev)}
    IN  IF hit = {} THEN conds
        ELSE LET i == CHOOSE i \in hit : \A j \in hit : i <= j
             IN  SubSeq(conds, 1, i - 1) \o SubSeq(conds, i + 1, Len(conds))

\* conditions.retain(|condition| !condition(aw))
Retain(conds, ev) == SelectSeq(conds, LAMBDA c : ~Satisfies(c, ev))

\* run_checks with the test of `size` in place of the test for empty: stop()
\* as soon as an action removes a condition
CheckerRunChecksOnRemoval(checker, ev) ==
    LET left == Retain(checker.conditions, ev)
    IN  [conditions |-> left, stop |-> (Len(left) # Len(checker.conditions))]

\* CallFxChecker::run_checks: the conditions left, and whether stop() is called
\* (the function then returns false and the checker is removed by the caller)
CheckerRunChecks(checker, ev) ==
    LET was_empty == checker.conditions = <<>>
        left      == Retain(checker.conditions, ev)
    IN  [conditions |-> left, stop |-> (left = <<>> /\ ~was_empty)]

---------------------------------------------------------------------------
(* Waiter *)

\* Waiter::add_call: HashMap::insert replaces a checker already stored under call
AddCall(chk, call, tx) ==
    [id \in DOMAIN chk \cup {call} |-> IF id = call THEN NewChecker(tx) ELSE chk[id]]

\* Waiter::current_checker: the key of the checker `current` names, if it is in the map
CurrentChecker(chk, cur) ==
    IF cur # None /\ cur \in DOMAIN chk THEN cur ELSE None

\* CallFxChecker::add on the checker stored under id
CheckerAdd(chk, id, cond) ==
    [chk EXCEPT ![id].conditions = Append(@, cond)]

\* a deactivate_current that leaves the pointer as it is
DeactivateCurrentKeeps(cur) == cur

\* Waiter::deactivate_current
DeactivateCurrent(cur) == None

\* the pattern (Some(checker), DirectMessage::Custom(_)) on data.message
RequiresRoundTrip(ev) == ev.custom

\* a match on the action whose ExecuteZomeFunction arm calls add_call and adds
\* no closure
AttributeWithoutReturn(chk, cur, ev, rx) ==
    CASE ev.t = "start" ->
            IF rx # NoChan
            THEN [checkers |-> AddCall(chk, ev.v, rx), current |-> ev.v]
            ELSE [checkers |-> chk, current |-> DeactivateCurrent(cur)]
      [] ev.t = "commit" ->
            IF CurrentChecker(chk, cur) # None
            THEN [checkers |-> CheckerAdd(chk, cur, HoldCondition(ev.v)), current |-> cur]
            ELSE [checkers |-> chk, current |-> cur]
      [] ev.t = "send" ->
            IF CurrentChecker(chk, cur) # None /\ RequiresRoundTrip(ev)
            THEN [checkers |-> CheckerAdd(chk, cur, PeerCondition(ev.v)), current |-> cur]
            ELSE [checkers |-> chk, current |-> cur]
      [] OTHER -> [checkers |-> chk, current |-> cur]

\* a match on the action with an arm for ReturnZomeFunctionResult that calls
\* deactivate_current when the call that returns is the current one
AttributeClearsOnReturn(chk, cur, ev, rx) ==
    CASE ev.t = "start" ->
            IF rx # NoChan
            THEN [checkers |-> CheckerAdd(AddCall(chk, ev.v, rx), ev.v, ReturnCondition(ev.v)),
                  current  |-> ev.v]
            ELSE [checkers |-> chk, current |-> DeactivateCurrent(cur)]
      [] ev.t = "commit" ->
            IF CurrentChecker(chk, cur) # None
            THEN [checkers |-> CheckerAdd(chk, cur, HoldCondition(ev.v)), current |-> cur]
            ELSE [checkers |-> chk, current |-> cur]
      [] ev.t = "send" ->
            IF CurrentChecker(chk, cur) # None /\ RequiresRoundTrip(ev)
            THEN [checkers |-> CheckerAdd(chk, cur, PeerCondition(ev.v)), current |-> cur]
            ELSE [checkers |-> chk, current |-> cur]
      [] ev.t = "return" /\ ev.v = cur ->
            [checkers |-> chk, current |-> DeactivateCurrent(cur)]
      [] OTHER -> [checkers |-> chk, current |-> cur]

\* The first half of process_signal: the match on the action, before run_checks.
\* rx is the ControlSender try_recv returned, NoChan when it returned Err.
Attribute(chk, cur, ev, rx) ==
    CASE ev.t = "start" ->
            IF rx # NoChan
            THEN [checkers |-> CheckerAdd(AddCall(chk, ev.v, rx), ev.v, ReturnCondition(ev.v)),
                  current  |-> ev.v]
            ELSE [checkers |-> chk, current |-> DeactivateCurrent(cur)]
      [] ev.t = "commit" ->
            IF CurrentChecker(chk, cur) # None
            THEN [checkers |-> CheckerAdd(chk, cur, HoldCondition(ev.v)), current |-> cur]
            ELSE [checkers |-> chk, current |-> cur]
      [] ev.t = "send" ->
            IF CurrentChecker(chk, cur) # None /\ RequiresRoundTrip(ev)
            THEN [checkers |-> CheckerAdd(chk, cur, PeerCondition(ev.v)), current |-> cur]
            ELSE [checkers |-> chk, current |-> cur]
      [] OTHER -> [checkers |-> chk, current |-> cur]

\* The checkers whose run_checks returns false for ev (stop() was called on them)
Stopping(chk, ev) ==
    {id \in DOMAIN chk : CheckerRunChecks(chk[id], ev).stop}

\* a retain that keeps the checkers that have stopped
KeptAll(chk, ev) == DOMAIN chk

\* The checkers Waiter::run_checks keeps: checkers.retain(|_, c| c.run_checks(aw))
Kept(chk, ev) == DOMAIN chk \ Stopping(chk, ev)

\* Waiter::run_checks: the map after the retain; every checker has run its checks
WaiterRunChecks(chk, ev) ==
    [id \in Kept(chk, ev) |->
        [chk[id] EXCEPT !.conditions = CheckerRunChecks(chk[id], ev).conditions]]

\* Waiter::process_signal.  A Signal that is not Internal changes nothing.
\* stopped: the senders on which stop() is called; dropped: the sender of a
\* checker that HashMap::insert replaced, dropped without a send.
ProcessSignal(chk, cur, ev, rx) ==
    IF ev.t = "signal"
    THEN [checkers |-> chk, current |-> cur, stopped |-> {}, dropped |-> {}]
    ELSE LET a == Attribute(chk, cur, ev, rx)
         IN  [checkers |-> WaiterRunChecks(a.checkers, ev),
              current  |-> a.current,
              stopped  |-> {a.checkers[id].tx : id \in Stopping(a.checkers, ev)},
              dropped  |-> IF ev.t = "start" /\ rx # NoChan /\ ev.v \in DOMAIN chk
                           THEN {chk[ev.v].tx} ELSE {}]

\* The number of conditions ev adds to the checker `current` names (0 or 1)
Adds(chk, cur, ev) ==
    IF CurrentChecker(chk, cur) # None
       /\ (ev.t = "commit" \/ (ev.t = "send" /\ RequiresRoundTrip(ev)))
    THEN 1 ELSE 0

---------------------------------------------------------------------------
(* State *)

VARIABLES
    checkers,    \* Waiter.checkers: ZomeFnCall -> [tx, conditions]
    current,     \* Waiter.current: a ZomeFnCall or None
    intake,      \* ControlSenders whose registrar is blocked in sender_tx.send,
                 \* in the order the channel's wait queue holds them
    nextChan,    \* the next control channel a registrar creates
    consumer,    \* per control channel, its receiver: "none" (not created),
                 \* "waiting" (held, in recv), "got" (recv returned Stop),
                 \* "closed" (recv returned Err: the sender was dropped),
                 \* "gone" (the receiver was dropped before any Stop)
    sent,        \* per control channel, the stop() calls made on its sender, each
                 \* tagged with its caller: "natural" (run_checks) or "forced" (shutdown)
    owner,       \* per control channel, the call add_call stored it under, or None
    owed,        \* per control channel, what its call still has to see (history)
    pc,          \* MainBackgroundTask: "check" (at the while test), "poll" (in
                 \* recv_timeout), "done" (perform returned Ok), "failed" (perform
                 \* returned Err), "panicked", "dropped" (complete() consumed the task)
    result,      \* what perform() returned: "none", "ok" or "err"
    is_running,  \* the shared Mutex<bool>
    script,      \* signals a test feeds to process_signal, in order
    idx          \* how many of them have been processed

vars == <<checkers, current, intake, nextChan, consumer, sent, owner, owed,
          pc, result, is_running, script, idx>>

EmptyMap == [id \in {} |-> NewChecker(NoChan)]

\* Waiter::new and MainBackgroundTask::new; no registrar has run yet
InitWaiter ==
    /\ checkers = EmptyMap
    /\ current = None
    /\ intake = <<>>
    /\ nextChan = 1
    /\ consumer = [c \in Chans |-> "none"]
    /\ sent = [c \in Chans |-> <<>>]
    /\ owner = [c \in Chans |-> None]
    /\ owed = [c \in Chans |-> {}]

Init ==
    /\ InitWaiter
    /\ pc = "check"
    /\ result = "none"
    /\ is_running = TRUE
    /\ script = <<>>
    /\ idx = 0

---------------------------------------------------------------------------
(* What a set of stop() calls and dropped senders does to the channels *)

\* tx.send(ControlMsg::Stop) on every channel of S, met by the consumer's recv
Deliver(S, tag) ==
    [c \in Chans |-> IF c \in S THEN Append(sent[c], tag) ELSE sent[c]]

\* consumers after Stops on S were received and the senders of D were dropped:
\* recv returns Ok(Stop) for S, Err for a waiting consumer of D
Consumers(S, D) ==
    [c \in Chans |->
        IF c \in S /\ consumer[c] = "waiting" THEN "got"
        ELSE IF c \in D /\ consumer[c] = "waiting" THEN "closed"
        ELSE consumer[c]]

\* stop() panics (send(..).unwrap() on an Err) when the receiver of the channel
\* no longer exists
Panics(S) == \E c \in S : consumer[c] # "waiting"

\* What a call still has to see, kept beside the condition lists and without
\* their closures: each element is the set of actions that settles one thing
\* process_signal attributed to the call while it was `current`.  Owes gives
\* the value after ev: what ev attributes, less what ev settles.
Owes(chk, cur, ev, rx) ==
    [c \in Chans |->
        LET attributed ==
                IF ev.t = "start" /\ rx = c
                THEN {{ReturnZomeFunctionResult(ev.v)}}
                ELSE IF CurrentChecker(chk, cur) # None /\ chk[cur].tx = c
                     THEN (CASE ev.t = "commit" -> owed[c] \cup {{Hold(ev.v)}}
                             [] ev.t = "send" /\ ev.custom ->
                                    owed[c] \cup {{ResolveDirectConnection(ev.v),
                                                   SendDirectMessageTimeout(ev.v)}}
                             [] OTHER -> owed[c])
                     ELSE owed[c]
        IN  {o \in attributed : ev \notin o}]

---------------------------------------------------------------------------
(* Registrars and consumers *)

\* A registrar makes a control channel, hands its receiver to a
\* CallBlockingTask and blocks in sender_tx.send(control_tx).  Registrars that
\* come after perform() left its loop are never received from and are left out.
RegistrarSend ==
    /\ nextChan <= MaxChans
    /\ pc \in {"check", "poll"}
    /\ intake' = Append(intake, nextChan)
    /\ consumer' = [consumer EXCEPT ![nextChan] = "waiting"]
    /\ nextChan' = nextChan + 1
    /\ UNCHANGED <<checkers, current, sent, owner, owed, pc, result, is_running,
                   script, idx>>

\* The TestContainer flips is_running to false
RequestShutdown ==
    /\ is_running
    /\ pc \in {"check", "poll"}
    /\ is_running' = FALSE
    /\ UNCHANGED <<checkers, current, intake, nextChan, consumer, sent, owner, owed,
                   pc, result, script, idx>>

\* A consumer drops its receiver without having received anything.  Only a
\* stop() on the channel's sender observes the drop, so the step is taken once
\* the sender is in a checker.
ConsumerDrop ==
    \E c \in Chans :
        /\ consumer[c] = "waiting"
        /\ pc \in {"check", "poll"}
        /\ \E id \in DOMAIN checkers : checkers[id].tx = c
        /\ consumer' = [consumer EXCEPT ![c] = "gone"]
        /\ UNCHANGED <<checkers, current, intake, nextChan, sent, owner, owed,
                       pc, result, is_running, script, idx>>

---------------------------------------------------------------------------
(* Waiter::process_signal as a step of the state *)

\* a try_recv called for every signal
TryRecvAnySignal(ev) ==
    IF intake # <<>> THEN Head(intake) ELSE NoChan

\* self.sender_rx.try_recv(), called for ExecuteZomeFunction only: the sender
\* of the registrar that blocked first, or NoChan (Err) when none is blocked
TryRecv(ev) ==
    IF ev.t = "start" /\ intake # <<>> THEN Head(intake) ELSE NoChan

\* the registrars still blocked after try_recv returned rx
Received(rx) == IF rx = NoChan THEN intake ELSE Tail(intake)

\* the conditions pending in the checkers of S
RECURSIVE Pending(_, _)
Pending(chk, S) ==
    IF S = {} THEN 0
    ELSE LET id == CHOOSE x \in S : TRUE
         IN  Len(chk[id].conditions) + Pending(chk, S \ {id})

\* the model's bound: ev may add a condition only below MaxConds
WithinBounds(ev, rx) ==
    (Adds(checkers, current, ev) = 1 \/ rx # NoChan)
        => Pending(checkers, DOMAIN checkers) < MaxConds

\* stop() on the senders of S, called in HashMap order, while the senders of D
\* are dropped.  Each stop() is tx.send(Stop).unwrap(): when no receiver of S
\* is missing every Stop is received and the caller goes on to nextpc; else the
\* call on some p whose receiver is missing panics, after the calls on `before`.
StopAll(S, D, tag, nextpc) ==
    IF ~Panics(S)
    THEN /\ sent' = Deliver(S, tag)
         /\ consumer' = Consumers(S, D)
         /\ pc' = nextpc
    ELSE \E p \in {c \in S : consumer[c] # "waiting"} :
         \E before \in SUBSET {c \in S : consumer[c] = "waiting"} :
            /\ sent' = Deliver(before \cup {p}, tag)
            /\ consumer' = Consumers(before, D)
            /\ pc' = "panicked"

\* process_signal(ev) where try_recv gave rx.  After a panic the map is left
\* as the match on the action made it.
Process(ev, rx, nextpc) ==
    LET a == Attribute(checkers, current, ev, rx)
        p == ProcessSignal(checkers, current, ev, rx)
    IN  /\ StopAll(p.stopped, p.dropped, "natural", nextpc)
        /\ checkers' = IF Panics(p.stopped) THEN a.checkers ELSE p.checkers
        /\ current' = p.current
        /\ intake' = Received(rx)
        /\ owner' = [c \in Chans |-> IF c = rx THEN ev.v ELSE owner[c]]
        /\ owed' = Owes(checkers, current, ev, rx)

---------------------------------------------------------------------------
(* MainBackgroundTask::perform *)

\* while *self.is_running.lock().unwrap() { recv_timeout(..)
RunnerPoll ==
    /\ pc = "check"
    /\ is_running
    /\ pc' = "poll"
    /\ UNCHANGED <<checkers, current, intake, nextChan, consumer, sent, owner, owed,
                   result, is_running, script, idx>>

\* Ok(sig) => self.waiter.borrow_mut().process_signal(sig)
RunnerRecvOk ==
    /\ pc = "poll"
    /\ \E ev \in Events :
          /\ WithinBounds(ev, TryRecv(ev))
          /\ Process(ev, TryRecv(ev), "check")
    /\ UNCHANGED <<nextChan, result, is_running, script, idx>>

\* Err(RecvTimeoutError::Timeout) => continue
RunnerTimeout ==
    /\ pc = "poll"
    /\ pc' = "check"
    /\ UNCHANGED <<checkers, current, intake, nextChan, consumer, sent, owner, owed,
                   result, is_running, script, idx>>

\* Err(err) => return Err(err.to_string()): the signal channel is disconnected
RunnerRecvErr ==
    /\ pc = "poll"
    /\ pc' = "failed"
    /\ result' = "err"
    /\ UNCHANGED <<checkers, current, intake, nextChan, consumer, sent, owner, owed,
                   is_running, script, idx>>

\* CallFxChecker::shutdown on every checker of the map: conditions.clear()
ShutdownCheckers(chk) ==
    [id \in DOMAIN chk |-> [chk[id] EXCEPT !.conditions = <<>>]]

\* the senders held by the checkers of the map
Lingering(chk) == {chk[id].tx : id \in DOMAIN chk}

\* the while test fails; for (_, checker) in checkers.iter_mut() { checker.shutdown() }; Ok(())
RunnerShutdown ==
    /\ pc = "check"
    /\ ~is_running
    /\ StopAll(Lingering(checkers), {}, "forced", "done")
    /\ checkers' = ShutdownCheckers(checkers)
    /\ result' = IF Panics(Lingering(checkers)) THEN result ELSE "ok"
    /\ UNCHANGED <<current, intake, nextChan, owner, owed, is_running, script, idx>>

\* Task::complete(self, ..): the task, its Waiter and every sender it holds are dropped
RunnerComplete ==
    /\ pc \in {"done", "failed"}
    /\ pc' = "dropped"
    /\ consumer' = Consumers({}, Lingering(checkers))
    /\ UNCHANGED <<checkers, current, intake, nextChan, sent, owner, owed,
                   result, is_running, script, idx>>

---------------------------------------------------------------------------
(* Specifications *)

\* The program with CallBlockingTask consumers, which hold their receiver
\* until recv returns
Next ==
    \/ RegistrarSend
    \/ RequestShutdown
    \/ RunnerPoll
    \/ RunnerRecvOk
    \/ RunnerTimeout
    \/ RunnerRecvErr
    \/ RunnerShutdown
    \/ RunnerComplete

Spec == Init /\ [][Next]_vars

\* The Waiter fed a fixed sequence of signals, as the tests feed it: the source
\* delivers script[1], script[2], ... and then stays idle; is_running stays true.
\* Registrars run as in Spec, so a start may or may not find a sender.

\* all interleavings of two sequences that keep the order of each
RECURSIVE Merges(_, _)
Merges(s, t) ==
    IF s = <<>> THEN {t}
    ELSE IF t = <<>> THEN {s}
    ELSE {<<Head(s)>> \o m : m \in Merges(Tail(s), t)}
         \cup {<<Head(t)>> \o m : m \in Merges(s, Tail(t))}

\* call A commits a1; call B commits b2 and b3
CallA == <<ExecuteZomeFunction("A"), Commit("a1"), ReturnZomeFunctionResult("A"),
           Hold("a1")>>
CallB == <<ExecuteZomeFunction("B"), Commit("b2"), Commit("b3"),
           ReturnZomeFunctionResult("B"), Hold("b2"), Hold("b3")>>

\* start A; write A1; return A; start B; write B2; write B3; acknowledge A1;
\* return B; acknowledge B2; acknowledge B3
LiteralAB ==
    <<ExecuteZomeFunction("A"), Commit("a1"), ReturnZomeFunctionResult("A"),
      ExecuteZomeFunction("B"), Commit("b2"), Commit("b3"), Hold("a1"),
      ReturnZomeFunctionResult("B"), Hold("b2"), Hold("b3")>>

Scripts == Merges(CallA, CallB)

ScenarioInit ==
    /\ InitWaiter
    /\ pc = "poll"
    /\ result = "none"
    /\ is_running = TRUE
    /\ script \in Scripts
    /\ idx = 0

\* process_signal on the next signal of the script
ScriptStep ==
    /\ pc = "poll"
    /\ idx < Len(script)
    /\ Process(script[idx + 1], TryRecv(script[idx + 1]), "poll")
    /\ idx' = idx + 1
    /\ UNCHANGED <<nextChan, result, is_running, script>>

ScenarioNext ==
    \/ RegistrarSend
    \/ ScriptStep

ScenarioSpec == ScenarioInit /\ [][ScenarioNext]_vars

\* The program with consumers that may drop their receiver early
NextGone ==
    \/ Next
    \/ ConsumerDrop

SpecGone == Init /\ [][NextGone]_vars

---------------------------------------------------------------------------
(* Properties *)

Range(f) == {f[i] : i \in DOMAIN f}

\* the control channels whose sender add_call put into a checker
Attached == {c \in Chans : owner[c] # None}

\* perform() has returned
Exited == pc \in {"done", "failed", "dropped"}

\* the control channels of the checkers in the map whose stop() was never called
Unfired == {c \in Lingering(checkers) : sent[c] = <<>>}

\* C1: once the Runner has exited, every control channel whose sender the
\* Waiter took at an ExecuteZomeFunction has had exactly one Stop sent on it
\* and received by its consumer.
C1_ExactlyOneResult ==
    Exited => \A c \in Attached : Len(sent[c]) = 1 /\ consumer[c] = "got"

\* C2: stop() is called at most once on any control sender, whatever signals
\* were processed and whether or not the shutdown loop has run.
C2_AtMostOnce ==
    \A c \in Chans : Len(sent[c]) <= 1

\* C2 witness: a checker was stopped by run_checks, and later the shutdown loop
\* ran over another
C2_Witness ==
    /\ pc = "done"
    /\ \E c, d \in Chans : sent[c] = <<"natural">> /\ sent[d] = <<"forced">>

\* C3: a Stop from run_checks has been sent on a channel only if nothing its
\* call owes is left (the return of the call, a Hold for every Commit and an
\* outcome for every Custom message attributed to it), and it is sent in the
\* step that settles the last of them.
C3_NotBefore ==
    \A c \in Chans : "natural" \in Range(sent[c]) => owed[c] = {}

C3_AtLast ==
    \A id \in DOMAIN checkers :
        LET c == checkers[id].tx
        IN  (owed[c] # {} /\ owed'[c] = {}) => sent'[c] = <<"natural">>

\* C3, in full: no Stop from run_checks before everything owed is settled,
\* and the Stop is sent by the step that settles the last of it.
C3_NoPrematureCompletion == []C3_NotBefore /\ [][C3_AtLast]_vars

\* C3 witness: the return of the call has been processed, a Hold is still
\* owed, no Stop yet
C3_Witness ==
    \E id \in DOMAIN checkers :
        /\ \E r \in Records : checkers[id].conditions = <<HoldCondition(r)>>
        /\ sent[checkers[id].tx] = <<>>

\* C4: with calls A and B both registered and their signals interleaved in any
\* order, a Stop has been sent on a call's channel exactly when nothing the
\* call owes is left, whatever the other call has seen; in the literal sequence
\* A is stopped by the Hold of a1 (the 7th signal) and B only by the Hold of b3
\* (the 10th).
C4_Own ==
    \A c \in Attached :
        /\ sent[c] \in {<<>>, <<"natural">>}
        /\ sent[c] = <<"natural">> <=> owed[c] = {}

C4_Literal ==
    (script = LiteralAB /\ owner[1] = "A") =>
        /\ idx < 7 => sent[1] = <<>>
        /\ idx >= 7 => sent[1] = <<"natural">>
        /\ owner[2] = "B" =>
              /\ idx < 10 => sent[2] = <<>>
              /\ idx = 10 => sent[2] = <<"natural">>

C5_ForcedAndCleared ==
    pc = "done" =>
        /\ \A c \in Lingering(checkers) : sent[c] = <<"forced">>
        /\ DOMAIN checkers = {}

\* one step of perform() that receives ev and runs process_signal on it
Step(ev) == pc = "poll" /\ Process(ev, TryRecv(ev), "check")

\* C6: an ExecuteZomeFunction processed while no registrar is blocked sets
\* current to None, leaves every checker as it is and sends nothing and
\* attaches no channel; and while current is None a Commit or a Custom
\* SendDirectMessage leaves every checker as it is.
C6_Clears ==
    (intake = <<>> /\ \E id \in Calls : Step(ExecuteZomeFunction(id))) =>
        /\ current' = None
        /\ checkers' = checkers
        /\ sent' = sent
        /\ owner' = owner

C6_NoAttribution ==
    (/\ current = None
     /\ \E ev \in {Commit(r) : r \in Records}
                  \cup {SendDirectMessage(m, TRUE) : m \in SentMsgs} : Step(ev)) =>
        /\ checkers' = checkers
        /\ current' = None
        /\ sent' = sent

C7_ShutdownOnFatal ==
    pc = "failed" => Unfired = {}

\* C8: a consumer that dropped its receiver never stops the Runner: no stop()
\* panics.
C8_ConsumerGoneNonFatal ==
    pc # "panicked"

\* C9: when the Runner has exited after is_running was set to false, stop()
\* has been called on the sender of every checker still in the map.
C9_ShutdownForcesAll ==
    (~is_running /\ Exited) => Unfired = {}

\* the two actions that settle a Custom message with id m
OutcomeOf(m) == {ResolveDirectConnection(m), SendDirectMessageTimeout(m)}

\* C10: a Custom SendDirectMessage(m) processed while a checker is current adds
\* the condition for m to it; while a checker holds the condition for m no Stop
\* from run_checks is sent on its channel by any step other than one that
\* processes ResolveDirectConnection(m) or SendDirectMessageTimeout(m) with that
\* same m; a SendDirectMessage of another kind leaves every checker as it is.
C10_Adds ==
    \A m \in SentMsgs :
        (CurrentChecker(checkers, current) # None /\ Step(SendDirectMessage(m, TRUE))) =>
            /\ current \in DOMAIN checkers'
            /\ PeerCondition(m) \in Range(checkers'[current].conditions)

C10_Holds ==
    \A id \in DOMAIN checkers : \A m \in Msgs :
        (/\ PeerCondition(m) \in Range(checkers[id].conditions)
         /\ ~ \E ev \in OutcomeOf(m) : Step(ev)) =>
            "natural" \notin Range(sent'[checkers[id].tx])

C10_OtherKinds ==
    \A m \in SentMsgs : Step(SendDirectMessage(m, FALSE)) => checkers' = checkers

\* C10, in full: the condition for m is added by a Custom message only, and
\* only an outcome with the same m lets run_checks stop the checker holding it.
C10_PeerRoundTrip == [][C10_Adds /\ C10_Holds /\ C10_OtherKinds]_vars

\* C10 witness: the call has returned and waits for the outcome of m1 alone
C10_Witness ==
    \E id \in DOMAIN checkers :
        /\ checkers[id].conditions = <<PeerCondition("m1")>>
        /\ sent[checkers[id].tx] = <<>>

---------------------------------------------------------------------------
(* The sequences of the tests, and specifications that feed them *)

\* can_await_commit_simple
CommitSimple ==
    <<ExecuteZomeFunction("c1"), Commit("x"), Hold("x"),
      ReturnZomeFunctionResult("c1")>>

\* can_await_commit_funky_ordering
FunkyOrdering ==
    <<ExecuteZomeFunction("c1"), Commit("e1"), ReturnZomeFunctionResult("c1"),
      ExecuteZomeFunction("c2"), Commit("e2"), Commit("e3"), Hold("e1"),
      ReturnZomeFunctionResult("c2"), Hold("e2"), Hold("e3")>>

\* can_await_direct_messages
DirectMessages ==
    <<ExecuteZomeFunction("1"), SendDirectMessage("m1", TRUE),
      ReturnZomeFunctionResult("1"),
      ExecuteZomeFunction("2"), SendDirectMessage("m1", TRUE),
      ReturnZomeFunctionResult("2"),
      ResolveDirectConnection("m1"), SendDirectMessageTimeout("m2")>>

TestScripts == {CommitSimple, FunkyOrdering, DirectMessages}

\* a test's Waiter before its first process_signal
TestInit ==
    /\ InitWaiter
    /\ pc = "poll"
    /\ result = "none"
    /\ is_running = TRUE
    /\ script \in TestScripts
    /\ idx = 0

\* The tests' sequences with registrars running beside them: a start finds a
\* sender when a registrar is blocked in its send at that moment
TestSpec == TestInit /\ [][ScenarioNext]_vars

\* a registrar that reaches its send only after the first signal of the
\* script, an ExecuteZomeFunction, has been processed
LateRegistrarSend ==
    /\ idx >= 1
    /\ RegistrarSend

RaceNext ==
    \/ LateRegistrarSend
    \/ ScriptStep

\* sequences that begin with the ExecuteZomeFunction of a first call and go on
\* to the ExecuteZomeFunction of another
RaceScripts == {FunkyOrdering, DirectMessages, LiteralAB}

RaceInit ==
    /\ InitWaiter
    /\ pc = "poll"
    /\ result = "none"
    /\ is_running = TRUE
    /\ script \in RaceScripts
    /\ idx = 0

\* Sequences of signals where every registrar is late for the first call
RaceSpec == RaceInit /\ [][RaceNext]_vars

---------------------------------------------------------------------------
(* Properties of the registration channel and of the tests' sequences *)

\* sender_tx.send(control_tx) has returned Ok for the registrar of channel c
Handed(c) == c < nextChan /\ c \notin Range(intake)

\* C11: whenever an ExecuteZomeFunction is processed and try_recv returns a
\* sender, the send of the registrar that handed it in had already returned
\* before that step (the handoff was complete before the start was processed).
C11_HandoffBeforeStart ==
    [][\A id \in Calls :
          (intake # <<>> /\ Step(ExecuteZomeFunction(id))) => Handed(Head(intake))]_vars

\* C12: a sender handed in only after the ExecuteZomeFunction of the first
\* call was processed without it is never put into the checker of another
\* call: every channel is unattached or attached to that first call.
C12_LateSenderNotAttached ==
    \A c \in Chans : owner[c] \in {None, script[1].v}

\* C13: in can_await_commit_funky_ordering, with the one registration taken by
\* the start of c1 and none by the start of c2, no Stop has been sent on the
\* consumer's channel up to and including Hold(e2), and Hold(e3) sends it.
C13_FunkyOrdering ==
    (script = FunkyOrdering /\ owner[1] = "c1" /\ owner[2] = None) =>
        /\ idx <= 9 => sent[1] = <<>>
        /\ idx = 10 => sent[1] = <<"natural">>

\* C14: in can_await_direct_messages, with the one registration taken by the
\* start of call 1 and none by the start of call 2, no Stop has been sent on
\* the consumer's channel up to and including ResolveDirectConnection(m1), and
\* SendDirectMessageTimeout(m2) sends it.
C14_DirectMessages ==
    (script = DirectMessages /\ owner[1] = "1" /\ owner[2] = None) =>
        /\ idx <= 7 => sent[1] = <<>>
        /\ idx = 8 => sent[1] = <<"natural">>

---------------------------------------------------------------------------
(* Properties of the map and of the current pointer *)

\* perform() is in its loop or has left it without the shutdown loop: the
\* last thing done to the Waiter was a process_signal (or nothing)
AfterProcessSignal == pc \in {"check", "poll", "failed"}

\* C15: after every process_signal no checker in the map has an empty
\* condition list, and a checker that a step took out of the map had stop()
\* called on its sender by run_checks in that step.
C15_NoEmptySet ==
    AfterProcessSignal =>
        \A id \in DOMAIN checkers : checkers[id].conditions # <<>>

C15_RemovedFired ==
    \A id \in DOMAIN checkers :
        id \notin DOMAIN checkers' =>
            sent'[checkers[id].tx] = Append(sent[checkers[id].tx], "natural")

\* C15, in full: a checker is in the map only with a condition pending, and
\* leaves the map only with its Stop sent.
C15_PresentIffPending == []C15_NoEmptySet /\ [][C15_RemovedFired]_vars

\* C15 witness: one checker has left the map with its Stop sent, another is
\* still in the map with a condition pending
C15_Witness ==
    /\ pc = "check"
    /\ \E c \in Attached : c \notin Lingering(checkers) /\ sent[c] = <<"natural">>
    /\ \E id \in DOMAIN checkers :
          checkers[id].conditions # <<>> /\ sent[checkers[id].tx] = <<>>

\* C16: the current pointer is None or a key of the map.
C16_CurrentLive ==
    current = None \/ current \in DOMAIN checkers

\* two calls that commit the same entry r1: A commits it twice, B commits it
\* once and r2 once
WriterA == <<ExecuteZomeFunction("A"), Commit("r1"), Commit("r1"),
             ReturnZomeFunctionResult("A")>>
WriterB == <<ExecuteZomeFunction("B"), Commit("r1"), Commit("r2"),
             ReturnZomeFunctionResult("B")>>

\* the two calls one after the other, then the two Holds
WritersInTurn == WriterA \o WriterB \o <<Hold("r1"), Hold("r2")>>

\* the signals of the two calls in any order, then the two Holds
RecordScripts == {m \o <<Hold("r1"), Hold("r2")>> : m \in Merges(WriterA, WriterB)}

RecordInit ==
    /\ InitWaiter
    /\ pc = "poll"
    /\ result = "none"
    /\ is_running = TRUE
    /\ script \in RecordScripts
    /\ idx = 0

RecordSpec == RecordInit /\ [][ScenarioNext]_vars

\* C17: when Hold(r) is processed, every checker of the map loses every
\* condition that waits for the Hold of r, duplicates included, and keeps its
\* other conditions in their order; a checker left with none is taken out of
\* the map with one Stop sent.
C17_HoldRemovesAll ==
    [][\A r \in Records :
          (idx < Len(script) /\ script[idx + 1] = Hold(r) /\ idx' = idx + 1) =>
              \A id \in DOMAIN checkers :
                  LET left == SelectSeq(checkers[id].conditions,
                                        LAMBDA c : c # HoldCondition(r))
                  IN  IF left = <<>>
                      THEN /\ id \notin DOMAIN checkers'
                           /\ sent'[checkers[id].tx] = <<"natural">>
                      ELSE /\ id \in DOMAIN checkers'
                           /\ checkers'[id].conditions = left
                           /\ sent'[checkers[id].tx] = sent[checkers[id].tx]]_vars

\* C17 witness: both calls tracked, one after the other; after the single
\* Hold(r1) A, which committed r1 twice, is stopped and B waits for r2 alone
C17_Witness ==
    /\ script = WritersInTurn
    /\ idx = 9
    /\ owner[1] = "A" /\ sent[1] = <<"natural">>
    /\ "B" \in DOMAIN checkers
    /\ checkers["B"].conditions = <<HoldCondition("r2")>>

\* C18: a sender that add_call put into a checker and that is no longer in
\* the map has had a Stop sent on it.
C18_EarlierStillFired ==
    \A c \in Attached : c \notin Lingering(checkers) => sent[c] # <<>>

\* C19: the queue of blocked registrars changes only by a registrar joining
\* it or by the step that processes an ExecuteZomeFunction, which takes
\* exactly the registrar at its head and leaves the others blocked.
C19_OnePerStart ==
    [][\/ intake' = intake
       \/ \E c \in Chans : intake' = Append(intake, c)
       \/ /\ intake # <<>>
          /\ intake' = Tail(intake)
          /\ \E id \in Calls : Step(ExecuteZomeFunction(id))]_vars

\* C19 witness: the sender of the first registrar is in a checker, the second
\* registrar is still blocked
C19_Witness ==
    /\ intake = <<2>>
    /\ owner[1] # None
    /\ owner[2] = None
    /\ consumer[2] = "waiting"

\* the signals that add a condition to the current checker
Accumulating ==
    {Commit(r) : r \in Records} \cup {SendDirectMessage(m, TRUE) : m \in SentMsgs}

\* the condition process_signal adds for an accumulating signal
ConditionFor(ev) ==
    IF ev.t = "commit" THEN HoldCondition(ev.v) ELSE PeerCondition(ev.v)

\* C20: current changes only in a step that processes an ExecuteZomeFunction;
\* a Commit or Custom SendDirectMessage processed while the checker current
\* names is in the map (its call returned or not) appends its condition to
\* that checker and sends nothing; processed while current names a checker no
\* longer in the map it leaves every checker as it is.
C20_OnlyStartsMove ==
    current' # current => \E id \in Calls : Step(ExecuteZomeFunction(id))

C20_StillAccumulates ==
    \A ev \in Accumulating :
        (CurrentChecker(checkers, current) # None /\ Step(ev)) =>
            /\ current \in DOMAIN checkers'
            /\ checkers'[current].conditions =
                   Append(checkers[current].conditions, ConditionFor(ev))
            /\ sent' = sent

C20_NothingOnceRemoved ==
    \A ev \in Accumulating :
        (current # None /\ current \notin DOMAIN checkers /\ Step(ev)) =>
            /\ checkers' = checkers
            /\ sent' = sent

\* C20, in full: only starts move current, a returned call that is still
\* current and in the map goes on accumulating, a removed one does not.
C20_CurrentSticks ==
    [][C20_OnlyStartsMove /\ C20_StillAccumulates /\ C20_NothingOnceRemoved]_vars

\* C20 witness: the current call has returned and a Commit processed after
\* that has added a second Hold condition to its checker
C20_Witness ==
    /\ pc = "check"
    /\ \E id \in DOMAIN checkers :
          /\ current = id
          /\ \E r, q \in Records :
                checkers[id].conditions = <<HoldCondition(r), HoldCondition(q)>>
          /\ sent[checkers[id].tx] = <<>>

====
